---- MODULE Spec2Model ----
(***************************************************************************)
(* traewelling-exporter: the /metrics scrape pipeline of src/main.rs.      *)
(*                                                                         *)
(*   metrics_handler -> fetch_metrics (#[cached], one entry, 2 s, the      *)
(*   cache mutex held across the upstream request) -> record_metrics       *)
(*   (reset of the journeys family, one get_metric_with + set per entry)   *)
(*   -> prometheus::gather.                                                *)
(*                                                                         *)
(* Every scrape is a task of its own on the multi-threaded runtime; the    *)
(* steps below are the points at which tasks interleave: the await on the  *)
(* cache mutex, the await on the upstream request, and each internally     *)
(* synchronised call on the metric family.                                 *)
(***************************************************************************)
EXTENDS Integers, Sequences, FiniteSets, TLC

----------------------------------------------------------------------------
(* Bounds of the model *)

\* number of scrape tasks of the concurrent specification
NScrapes == 2
\* number of scrape tasks of the sequential specification
NSeqScrapes == 2
\* the wall clock runs from 0 to MaxTime seconds
MaxTime == 3
\* longest snapshot the upstream returns in the sequential specification
MaxLen == 3

----------------------------------------------------------------------------
(* Option<T> *)

None == <<>>
Some(x) == <<x>>

----------------------------------------------------------------------------
(* to_string of the numeric fields (main.rs 179-187) *)

Digit == <<"0", "1", "2", "3", "4", "5", "6", "7", "8", "9">>

\* <i32 as ToString>::to_string: shortest decimal form, "-" for negatives
RECURSIVE NatToString(_)
NatToString(n) ==
    IF n < 10 THEN Digit[n + 1]
    ELSE NatToString(n \div 10) \o Digit[(n % 10) + 1]

IntToString(n) == IF n < 0 THEN "-" \o NatToString(0 - n) ELSE NatToString(n)

\* <f64 as ToString>::to_string for a speed given in tenths of km/h (843 is
\* 84.3): the shortest form that reads back, so 84.0 prints as "84"
F64ToString(tenths) ==
    IF tenths % 10 = 0 THEN NatToString(tenths \div 10)
    ELSE NatToString(tenths \div 10) \o "." \o Digit[(tenths % 10) + 1]

----------------------------------------------------------------------------
(* The upstream statuses (lib.rs Status, Train, Event, TrainStopover):     *)
(* the fields fetch_metrics reads.  speed is in tenths of km/h.            *)

Train(category, lineName, number, distance, duration, speed, origin, destination) ==
    [category |-> category, line_name |-> lineName, number |-> number,
     distance |-> distance, duration |-> duration, speed |-> speed,
     origin |-> [name |-> origin], destination |-> [name |-> destination]]

TrainRE5 == Train("regional", "RE5", "4512", 120000, 95, 843, "Hamburg Hbf", "Kiel Hbf")
TrainICE == Train("nationalExpress", "ICE 4", "704", 286000, 100, 1720, "Berlin Hbf", "Hamburg Hbf")

\* alice on the RE5, checked in without an event
StatusA == [user |-> 7, username |-> "alice", train |-> TrainRE5, event |-> None]
\* the same check-in attached to an event: every journeys label is the same
StatusAEvent ==
    [user |-> 7, username |-> "alice", train |-> TrainRE5,
     event |-> Some([id |-> 12, name |-> "Chaos Congress"])]
\* bob on the ICE
StatusB == [user |-> 8, username |-> "bob", train |-> TrainICE, event |-> None]

Statuses == {StatusA, StatusAEvent, StatusB}
FeedStatuses == {StatusA, StatusB}

\* every sequence over S of length at most n
SeqsUpTo(S, n) == UNION {[1..k -> S] : k \in 0..n}

----------------------------------------------------------------------------
(* fetch_metrics: the aggregation (main.rs 174-203) *)

\* the closure of .map (main.rs 176-189): Status -> CheckinData
ToCheckinData(checkin) ==
    [category    |-> checkin.train.category,
     line_name   |-> checkin.train.line_name,
     distance    |-> IntToString(checkin.train.distance),
     duration    |-> IntToString(checkin.train.duration),
     number      |-> checkin.train.number,
     speed       |-> F64ToString(checkin.train.speed),
     user_id     |-> IntToString(checkin.user),
     username    |-> checkin.username,
     origin      |-> checkin.train.origin.name,
     destination |-> checkin.train.destination.name,
     event_id    |-> IF checkin.event = None THEN None
                     ELSE Some(IntToString(checkin.event[1].id)),
     event_name  |-> IF checkin.event = None THEN None
                     ELSE Some(checkin.event[1].name)]

\* the key closure of .group_by (main.rs 190-194): #[derive(Hash)] feeds all
\* twelve fields of CheckinData, in declaration order, to DefaultHasher.
\* The 64-bit digest is taken to be free of collisions: two keys are equal
\* exactly when the hashed fields are.
HashKey(d) ==
    <<d.category, d.distance, d.line_name, d.number, d.duration, d.speed,
      d.user_id, d.username, d.origin, d.destination, d.event_id, d.event_name>>

\* Itertools::group_by: the end of the run of CONSECUTIVE elements that
\* starts at i and shares its key
RECURSIVE RunEnd(_, _)
RunEnd(keys, i) ==
    IF i < Len(keys) /\ keys[i + 1] = keys[i] THEN RunEnd(keys, i + 1) ELSE i

\* the groups of group_by, in order, each as the span lo..hi of positions
RECURSIVE Groups(_, _)
Groups(keys, i) ==
    IF i > Len(keys) THEN <<>>
    ELSE <<[lo |-> i, hi |-> RunEnd(keys, i)]>> \o Groups(keys, RunEnd(keys, i) + 1)

GroupBy(datas) == Groups([i \in 1..Len(datas) |-> HashKey(datas[i])], 1)

\* main.rs 174-202: map, group_by, then (first of the group, its length)
AggregateOffByOne(snapshot) ==
    LET datas == [i \in 1..Len(snapshot) |-> ToCheckinData(snapshot[i])]
        spans == GroupBy(datas)
    IN  [k \in 1..Len(spans) |->
            [first |-> datas[spans[k].lo], length |-> spans[k].hi - spans[k].lo]]

Aggregate(snapshot) ==
    LET datas == [i \in 1..Len(snapshot) |-> ToCheckinData(snapshot[i])]
        spans == GroupBy(datas)
    IN  [k \in 1..Len(spans) |->
            [first |-> datas[spans[k].lo], length |-> spans[k].hi - spans[k].lo + 1]]

\* the entry of the aggregate that counts the status at position i
EntryOf(snapshot, i) ==
    LET datas == [j \in 1..Len(snapshot) |-> ToCheckinData(snapshot[j])]
        spans == GroupBy(datas)
    IN  CHOOSE k \in 1..Len(spans) : spans[k].lo <= i /\ i <= spans[k].hi

\* From<&CheckinData> for HashMap<&str, &str> (main.rs 76-91): the ten labels
Labels(d) ==
    [category |-> d.category, distance |-> d.distance, line_name |-> d.line_name,
     number |-> d.number, duration |-> d.duration, speed |-> d.speed,
     user_id |-> d.user_id, user_name |-> d.username,
     destination |-> d.destination, origin |-> d.origin]

LabelTuple(status) == Labels(ToCheckinData(status))

----------------------------------------------------------------------------
(* The state *)

VARIABLES
    now,        \* the wall clock, in seconds
    cache,      \* FETCH_METRICS, the TimedCache of #[cached]: None or the one
                \* entry [val, at] under the key "metrics"
    holder,     \* the task holding the cache mutex, 0 when it is free
    waitq,      \* the tasks suspended in lock().await, first come first served
    pc,         \* per task: where it stands in metrics_handler
    res,        \* per task: how fetch_metrics returned ("none" before it did)
    data,       \* per task: the Vec<(CheckinData, usize)> fetch_metrics returned
    idx,        \* per task: the position of record_metrics' for loop
    handle,     \* per task: whether the gauge get_metric_with returned is still
                \* a child of the family
    checkins,   \* Metrics.checkins, the journeys family: label map -> value
    requests,   \* Metrics.traewelling_requests
    resp,       \* per task: the response of metrics_handler, None until sent
    feed,       \* history: per task, the snapshot its aggregate was built from
    lastOk,     \* history: [val, at, feed] of the last fill that succeeded, or None
    lastFill,   \* history: how the last fill ended (ok, err, dropped)
    sawFail     \* history: per task, whether a fill failed while it was waiting

vars == <<now, cache, holder, waitq, pc, res, data, idx, handle, checkins,
          requests, resp, feed, lastOk, lastFill, sawFail>>

Scrapes == 1..NScrapes
SeqScrapes == 1..NSeqScrapes
AllScrapes == 1..(IF NScrapes > NSeqScrapes THEN NScrapes ELSE NSeqScrapes)

\* the snapshots the upstream answers with in the concurrent specification:
\* the empty feed, one check-in, and two check-ins that collapse into one entry
Feed == {<<>>} \cup {<<status>> : status \in FeedStatuses} \cup {<<StatusA, StatusA>>}
\* and in the sequential one: every snapshot of up to MaxLen statuses
SeqFeed == SeqsUpTo(Statuses, MaxLen)

\* Result<T, E>
Ok(v) == [ok |-> TRUE, val |-> v]
Err(e) == [ok |-> FALSE, val |-> e]

\* the journeys family without a child
EmptyFamily == [t \in {} |-> 0]

----------------------------------------------------------------------------
(* #[cached(time = 2, sync_writes = true, key = "String", result = true)]  *)
(* (main.rs 151-157)                                                       *)

\* time = 2: seconds an entry lives, counted from cache_set
time == 2

\* sync_writes = true: the mutex is kept from the lookup to the cache_set
sync_writes_off == FALSE

sync_writes == TRUE

\* TimedCache::cache_get at time t: the value while elapsed().as_secs() < time
CacheGetMiss(c, t) == None

CacheGetNoExpiry(c, t) ==
    IF c # None THEN Some(c[1].val) ELSE None

CacheGet(c, t) ==
    IF c # None /\ t - c[1].at < time THEN Some(c[1].val) ELSE None

\* the store after cache_get: an entry found expired is removed
CacheAfterGet(c, t) ==
    IF c # None /\ CacheGet(c, t) = None THEN None ELSE c

\* result = true: cache_set(key, value) at time t for Ok(value) only
CacheAfterFillAlways(c, result, t) ==
    Some([val |-> IF result.ok THEN result.val ELSE <<>>, at |-> t])

CacheAfterFill(c, result, t) ==
    IF result.ok THEN Some([val |-> result.val, at |-> t]) ELSE c

----------------------------------------------------------------------------
(* metrics_handler (main.rs 131-149) and the body of fetch_metrics         *)

\* main.rs 162-172: both arms of the match count the request
RequestsAfterOkOnly(result, r) == IF result.ok THEN r + 1 ELSE r

RequestsAfter(result, r) == IF result.ok THEN r + 1 ELSE r + 1

\* main.rs 134-137: let-else, record_metrics runs for Ok(data) only
HandlerNextAlwaysRecords(result) == "reset"

HandlerNext(result) == IF result.ok THEN "reset" ELSE "done"

\* the text of main.rs 139-148: Registry::default() gathers nothing, then
\* prometheus::gather() reads every family of the default registry
Gather == [journeys |-> checkins, traewelling_requests |-> requests]

\* Result<String, String> as a response: axum answers with the String of
\* either variant, and a String answers with status 200
IntoResponse(result) ==
    IF result.ok THEN [status |-> 200, message |-> "", metrics |-> Some(result.val)]
    ELSE [status |-> 200, message |-> result.val, metrics |-> None]

Init ==
    /\ now = 0
    /\ cache = None
    /\ holder = 0
    /\ waitq = <<>>
    /\ pc = [s \in AllScrapes |-> "idle"]
    /\ res = [s \in AllScrapes |-> "none"]
    /\ data = [s \in AllScrapes |-> <<>>]
    /\ idx = [s \in AllScrapes |-> 0]
    /\ handle = [s \in AllScrapes |-> FALSE]
    /\ checkins = EmptyFamily
    /\ requests = 0
    /\ resp = [s \in AllScrapes |-> None]
    /\ feed = [s \in AllScrapes |-> <<>>]
    /\ lastOk = None
    /\ lastFill = "none"
    /\ sawFail = [s \in AllScrapes |-> FALSE]

\* a second of wall-clock time passes
Tick ==
    /\ now < MaxTime
    /\ now' = now + 1
    /\ UNCHANGED <<cache, holder, waitq, pc, res, data, idx, handle, checkins,
                   requests, resp, feed, lastOk, lastFill, sawFail>>

\* GET /metrics: metrics_handler calls fetch_metrics, which awaits the mutex
Request(s) ==
    /\ pc[s] = "idle"
    /\ pc' = [pc EXCEPT ![s] = "wait"]
    /\ waitq' = Append(waitq, s)
    /\ UNCHANGED <<now, cache, holder, res, data, idx, handle, checkins,
                   requests, resp, feed, lastOk, lastFill, sawFail>>

\* the same, one scrape after the other
RequestSeq(s) ==
    /\ \A t \in AllScrapes : pc[t] \in {"idle", "done"}
    /\ Request(s)

\* the mutex is granted to the first waiter, which looks the key up: a hit
\* returns the clone and drops the guard, a miss starts the upstream request
Acquire(s) ==
    /\ holder = 0
    /\ waitq # <<>> /\ Head(waitq) = s
    /\ waitq' = Tail(waitq)
    /\ cache' = CacheAfterGet(cache, now)
    /\ IF CacheGet(cache, now) # None
       THEN /\ res' = [res EXCEPT ![s] = "hit"]
            /\ data' = [data EXCEPT ![s] = CacheGet(cache, now)[1]]
            /\ pc' = [pc EXCEPT ![s] = HandlerNext(Ok(CacheGet(cache, now)[1]))]
            /\ holder' = 0
            /\ feed' = [feed EXCEPT ![s] = IF lastOk # None THEN lastOk[1].feed ELSE <<>>]
       ELSE /\ pc' = [pc EXCEPT ![s] = "filling"]
            /\ holder' = IF sync_writes THEN s ELSE 0
            /\ UNCHANGED <<res, data, feed>>
    /\ UNCHANGED <<now, idx, handle, checkins, requests, resp, lastOk,
                   lastFill, sawFail>>

\* the guard is never dropped
GuardLeaked(h, s) == h

\* the MutexGuard of the generated wrapper goes out of scope: at the end of
\* the wrapper, or when the future that owns it is dropped
GuardDropped(h, s) == IF h = s THEN 0 ELSE h

\* get_active_statuses returned `reply` to task s (main.rs 162-203), the
\* wrapper stores an Ok and drops the guard, and metrics_handler goes on
FillReturns(s, reply) ==
    LET result == IF reply.ok THEN Ok(Aggregate(reply.val)) ELSE Err(<<>>)
    IN  /\ pc[s] = "filling"
        /\ requests' = RequestsAfter(result, requests)
        /\ cache' = CacheAfterFill(cache, result, now)
        /\ holder' = GuardDropped(holder, s)
        /\ res' = [res EXCEPT ![s] = IF result.ok THEN "filled" ELSE "err"]
        /\ data' = [data EXCEPT ![s] = result.val]
        /\ pc' = [pc EXCEPT ![s] = HandlerNext(result)]
        /\ resp' = IF result.ok THEN resp
                   ELSE [resp EXCEPT ![s] = Some(IntoResponse(Err("Failed to fetch journeys")))]
        /\ feed' = IF result.ok THEN [feed EXCEPT ![s] = reply.val] ELSE feed
        /\ lastOk' = IF result.ok
                     THEN Some([val |-> result.val, at |-> now, feed |-> reply.val])
                     ELSE lastOk
        /\ lastFill' = IF result.ok THEN "ok" ELSE "err"
        /\ sawFail' = IF result.ok THEN sawFail
                      ELSE [t \in AllScrapes |->
                               sawFail[t] \/ \E i \in 1..Len(waitq) : waitq[i] = t]
        /\ UNCHANGED <<now, waitq, idx, handle, checkins>>

\* the upstream answers 2xx with a body that decodes to `snapshot`
UpstreamOk(s, snapshot) == FillReturns(s, Ok(snapshot))

\* transport error, non-2xx status or a body that does not decode
UpstreamErr(s) == FillReturns(s, Err("upstream"))

\* record_metrics, main.rs 207: checkins.reset() drops every child
Reset(s) ==
    /\ pc[s] = "reset"
    /\ checkins' = EmptyFamily
    /\ handle' = [t \in AllScrapes |-> FALSE]
    /\ idx' = [idx EXCEPT ![s] = 1]
    /\ pc' = [pc EXCEPT ![s] = IF data[s] = <<>> THEN "render" ELSE "get"]
    /\ UNCHANGED <<now, cache, holder, waitq, res, data, requests, resp,
                   feed, lastOk, lastFill, sawFail>>

\* main.rs 209-213: get_metric_with returns the child of the label map,
\* creating it with value 0 when the family has none
GetMetricWith(s) ==
    /\ pc[s] = "get"
    /\ LET map == Labels(data[s][idx[s]].first)
       IN  checkins' = IF map \in DOMAIN checkins THEN checkins
                       ELSE checkins @@ (map :> 0)
    /\ handle' = [handle EXCEPT ![s] = TRUE]
    /\ pc' = [pc EXCEPT ![s] = "set"]
    /\ UNCHANGED <<now, cache, holder, waitq, res, data, idx, requests, resp,
                   feed, lastOk, lastFill, sawFail>>

\* main.rs 214: set(amount) on that gauge; a gauge a reset has dropped from
\* the family in the meantime is written without effect on the family
SetGauge(s) ==
    /\ pc[s] = "set"
    /\ LET map == Labels(data[s][idx[s]].first)
       IN  checkins' = IF handle[s] THEN [checkins EXCEPT ![map] = data[s][idx[s]].length]
                       ELSE checkins
    /\ handle' = [handle EXCEPT ![s] = FALSE]
    /\ idx' = [idx EXCEPT ![s] = idx[s] + 1]
    /\ pc' = [pc EXCEPT ![s] = IF idx[s] = Len(data[s]) THEN "render" ELSE "get"]
    /\ UNCHANGED <<now, cache, holder, waitq, res, data, requests, resp,
                   feed, lastOk, lastFill, sawFail>>

\* main.rs 139-148: encode what gather() reads and answer Ok(text)
Render(s) ==
    /\ pc[s] = "render"
    /\ resp' = [resp EXCEPT ![s] = Some(IntoResponse(Ok(Gather)))]
    /\ pc' = [pc EXCEPT ![s] = "done"]
    /\ UNCHANGED <<now, cache, holder, waitq, res, data, idx, handle, checkins,
                   requests, feed, lastOk, lastFill, sawFail>>

\* the scraper drops its connection: the task is dropped at the await it is
\* suspended in, and with it the guard it may hold
Cancel(s) ==
    /\ pc[s] \in {"wait", "filling"}
    /\ pc' = [pc EXCEPT ![s] = "cancelled"]
    /\ waitq' = SelectSeq(waitq, LAMBDA t : t # s)
    /\ holder' = GuardDropped(holder, s)
    /\ lastFill' = IF pc[s] = "filling" THEN "dropped" ELSE lastFill
    /\ UNCHANGED <<now, cache, res, data, idx, handle, checkins, requests,
                   resp, feed, lastOk, sawFail>>

\* concurrent scrapes
Next ==
    \/ Tick
    \/ \E s \in Scrapes : Request(s)
    \/ \E s \in Scrapes : Acquire(s)
    \/ \E s \in Scrapes : \E snapshot \in Feed : UpstreamOk(s, snapshot)
    \/ \E s \in Scrapes : UpstreamErr(s)
    \/ \E s \in Scrapes : Reset(s)
    \/ \E s \in Scrapes : GetMetricWith(s)
    \/ \E s \in Scrapes : SetGauge(s)
    \/ \E s \in Scrapes : Render(s)
    \/ \E s \in Scrapes : Cancel(s)

Spec == Init /\ [][Next]_vars

\* scrapes that arrive one after the other, on snapshots of up to MaxLen
NextSeq ==
    \/ Tick
    \/ \E s \in SeqScrapes : RequestSeq(s)
    \/ \E s \in SeqScrapes : Acquire(s)
    \/ \E s \in SeqScrapes : \E snapshot \in SeqFeed : UpstreamOk(s, snapshot)
    \/ \E s \in SeqScrapes : UpstreamErr(s)
    \/ \E s \in SeqScrapes : Reset(s)
    \/ \E s \in SeqScrapes : GetMetricWith(s)
    \/ \E s \in SeqScrapes : SetGauge(s)
    \/ \E s \in SeqScrapes : Render(s)

SpecSeq == Init /\ [][NextSeq]_vars

\* scrapes that arrive one after the other, on the snapshots of Feed
NextSerial ==
    \/ Tick
    \/ \E s \in Scrapes : RequestSeq(s)
    \/ \E s \in Scrapes : Acquire(s)
    \/ \E s \in Scrapes : \E snapshot \in Feed : UpstreamOk(s, snapshot)
    \/ \E s \in Scrapes : UpstreamErr(s)
    \/ \E s \in Scrapes : Reset(s)
    \/ \E s \in Scrapes : GetMetricWith(s)
    \/ \E s \in Scrapes : SetGauge(s)
    \/ \E s \in Scrapes : Render(s)

SpecSerial == Init /\ [][NextSerial]_vars

\* the aggregation alone: one scrape on a cold cache, of any snapshot of up
\* to MaxLen statuses
AggScrapes == {1}

NextAgg ==
    \/ \E s \in AggScrapes : Request(s)
    \/ \E s \in AggScrapes : Acquire(s)
    \/ \E s \in AggScrapes : \E snapshot \in SeqFeed : UpstreamOk(s, snapshot)
    \/ \E s \in AggScrapes : Reset(s)
    \/ \E s \in AggScrapes : GetMetricWith(s)
    \/ \E s \in AggScrapes : SetGauge(s)
    \/ \E s \in AggScrapes : Render(s)

SpecAgg == Init /\ [][NextAgg]_vars

----------------------------------------------------------------------------
(* Vocabulary of the properties *)

\* the samples of a journeys family, as (label map, value) pairs
SamplesOf(family) == {<<map, family[map]>> : map \in DOMAIN family}

\* the (tuple, count) pairs of an aggregate
PairsOf(aggregate) ==
    {<<Labels(aggregate[k].first), aggregate[k].length>> : k \in 1..Len(aggregate)}

\* the number of statuses of a snapshot whose label tuple is that of position i
CountLike(snapshot, i) ==
    Cardinality({j \in 1..Len(snapshot) :
                    LabelTuple(snapshot[j]) = LabelTuple(snapshot[i])})

\* fetch_metrics returned an aggregate to task s
Fetched(s) == res[s] \in {"hit", "filled"}

\* task s has answered a scrape it could fetch for
Scraped(s) == Fetched(s) /\ pc[s] = "done" /\ resp[s] # None

\* the journeys samples in the body task s answered with
Rendered(s) == resp[s][1].metrics[1].journeys

\* the last successful fill is still within its TTL
LastOkFresh == lastOk # None /\ now - lastOk[1].at < time

\* in this step the upstream request of task s returns
Returns(s) == pc[s] = "filling" /\ pc'[s] \notin {"filling", "cancelled"}

\* in this step task s is granted the mutex and looks the cache up
LooksUp(s) == pc[s] = "wait" /\ pc'[s] \notin {"wait", "cancelled"}

----------------------------------------------------------------------------
(* The claims *)

\* C1: within one TTL window the fill runs at most once: a fill that
\* succeeds does so with no other fill in flight and at least `time` seconds
\* after the previous successful one, it advances traewelling_requests by
\* exactly 1, and every other caller of the window is handed the aggregate
\* of that fill without the counter moving.
C1_SingleFlight ==
    [][\A s \in Scrapes :
        /\ (Returns(s) /\ res'[s] = "filled") =>
              /\ lastOk = None \/ now - lastOk[1].at >= time
              /\ \A t \in Scrapes \ {s} : pc[t] # "filling"
              /\ requests' = requests + 1
        /\ (LooksUp(s) /\ res'[s] = "hit") =>
              /\ lastOk # None
              /\ data'[s] = lastOk[1].val
              /\ requests' = requests]_vars

\* C1 witness: one task filled, another was served from the cache with the
\* same non-empty aggregate, and the counter stands at 1
C1_Witness ==
    \E s, t \in Scrapes :
        /\ res[s] = "filled" /\ res[t] = "hit"
        /\ data[s] = data[t] /\ data[s] # <<>>
        /\ requests = 1

\* C2 (as claimed): after a successful scrape the journeys samples in its
\* body are exactly the (tuple, count) pairs of the aggregate it applied.
C2_SamplesAreAggregate ==
    \A s \in SeqScrapes : Scraped(s) => SamplesOf(Rendered(s)) = PairsOf(data[s])

\* C3 (as claimed): after a successful scrape of a snapshot, the sample of
\* every label tuple occurring in it is the number of statuses of the
\* snapshot with that label tuple.
C3_SampleCountsStatuses ==
    \A s \in SeqScrapes : Scraped(s) =>
        \A i \in 1..Len(feed[s]) :
            /\ LabelTuple(feed[s][i]) \in DOMAIN Rendered(s)
            /\ Rendered(s)[LabelTuple(feed[s][i])] = CountLike(feed[s], i)

\* C4: traewelling_requests never decreases; a step advances it by exactly
\* one when an upstream request returns in it (Ok or Err) and leaves it
\* alone otherwise, a cache hit included.
C4_RequestsCountsAttempts ==
    [][requests' = requests + Cardinality({s \in Scrapes : Returns(s)})]_vars

\* C4 witness: one request succeeded, one failed, the counter stands at 2
C4_Witness ==
    \E s, t \in Scrapes : res[s] = "filled" /\ res[t] = "err" /\ requests = 2

\* C5 (as claimed): a scrape whose fetch failed is answered with status 500,
\* a short message and no metrics text.
C5_FailureIs500 ==
    \A s \in Scrapes : (res[s] = "err" /\ resp[s] # None) =>
        /\ resp[s][1].status = 500
        /\ resp[s][1].message # ""
        /\ resp[s][1].metrics = None

\* C6: a scrape whose upstream request failed takes no step that changes the
\* journeys family, and is done the moment the failure returns.
C6_FailureLeavesGauge ==
    [][\A s \in Scrapes :
        /\ (pc'[s] # pc[s] /\ (res[s] = "err" \/ res'[s] = "err")) =>
              checkins' = checkins
        /\ res'[s] = "err" => pc'[s] = "done"]_vars

\* C6 witness: a failed scrape is done and the family still holds samples
C6_Witness ==
    \E s \in Scrapes :
        res[s] = "err" /\ pc[s] = "done" /\ checkins # EmptyFamily

C8_FailureNotCached ==
    [][\A s \in Scrapes :
        /\ (Returns(s) /\ res'[s] = "err") =>
              cache' = cache /\ CacheGet(cache', now') = None
        /\ (LooksUp(s) /\ lastFill = "err") => pc'[s] = "filling"]_vars

\* C8 witness: after a failed scrape another scrape has its request in flight
C8_Witness ==
    \E s, t \in Scrapes :
        res[s] = "err" /\ lastFill = "err" /\ pc[t] = "filling" /\ cache = None

\* C9: a cache hit is always younger than `time` seconds, counted from the
\* completion of the fill that produced it; a scrape whose fill fails gets
\* an error and no aggregate, whatever the cache held before.
C9_NeverStale ==
    [][\A s \in Scrapes :
        /\ (LooksUp(s) /\ res'[s] = "hit") => LastOkFresh
        /\ (Returns(s) /\ res'[s] = "err") =>
              /\ data'[s] = <<>>
              /\ resp'[s] # None /\ resp'[s][1].metrics = None]_vars

\* C9 witness: the refill after expiry failed and the scrape got the error
C9_Witness ==
    \E s \in Scrapes :
        /\ res[s] = "err" /\ resp[s] # None /\ resp[s][1].metrics = None
        /\ lastOk # None /\ now - lastOk[1].at >= time

\* C10 (as claimed): two statuses of a snapshot are counted in the same
\* entry of the aggregate exactly when their label tuples are equal.
C10_SameEntryIffSameTuple ==
    \A s \in SeqScrapes : res[s] = "filled" =>
        \A i, j \in 1..Len(feed[s]) :
            (EntryOf(feed[s], i) = EntryOf(feed[s], j))
                <=> (LabelTuple(feed[s][i]) = LabelTuple(feed[s][j]))

\* the multiset of the (tuple, count) pairs of an aggregate
BagOfPairs(aggregate) ==
    [pair \in PairsOf(aggregate) |->
        Cardinality({k \in 1..Len(aggregate) :
            <<Labels(aggregate[k].first), aggregate[k].length>> = pair})]

\* a snapshot with its statuses reordered by the permutation p of its positions
Reordered(snapshot, p) == [i \in 1..Len(snapshot) |-> snapshot[p[i]]]

\* the sum of the counts of an aggregate
RECURSIVE SumOfCounts(_)
SumOfCounts(aggregate) ==
    IF aggregate = <<>> THEN 0
    ELSE Head(aggregate).length + SumOfCounts(Tail(aggregate))

\* C11 (as claimed): every reordering of the statuses of a snapshot gives the
\* same multiset of (tuple, count) pairs as the snapshot itself.
C11_OrderIrrelevant ==
    \A s \in AggScrapes : res[s] = "filled" =>
        \A p \in Permutations(1..Len(feed[s])) :
            BagOfPairs(Aggregate(Reordered(feed[s], p))) = BagOfPairs(data[s])

\* C12: the aggregate of a snapshot has at most as many entries as the
\* snapshot has statuses, every count is at least 1, the counts sum to the
\* number of statuses, and the empty snapshot gives the empty aggregate.
C12_PartitionLaw ==
    \A s \in AggScrapes : res[s] = "filled" =>
        /\ Len(data[s]) <= Len(feed[s])
        /\ \A k \in 1..Len(data[s]) : data[s][k].length >= 1
        /\ SumOfCounts(data[s]) = Len(feed[s])
        /\ feed[s] = <<>> => data[s] = <<>>

\* C12 witness: three statuses were aggregated into two entries
C12_Witness ==
    \E s \in AggScrapes :
        res[s] = "filled" /\ Len(feed[s]) = 3 /\ Len(data[s]) = 2

\* C13: of two scrapes made one after the other, the second, looking the
\* cache up within the TTL of the first one's fill, is served from the cache
\* without an upstream request and without a move of traewelling_requests,
\* and its body is the body of a scrape that filled: same journeys samples,
\* same counter.
C13_SecondScrapeServed ==
    /\ [](\A t \in Scrapes : (Scraped(t) /\ res[t] = "hit") =>
            \E s \in Scrapes \ {t} :
                Scraped(s) /\ res[s] = "filled" /\ resp[s] = resp[t])
    /\ [][\A t \in Scrapes : (LooksUp(t) /\ LastOkFresh) =>
            /\ res'[t] = "hit"
            /\ pc'[t] # "filling"
            /\ requests' = requests]_vars

\* C13 witness: a scrape that filled and a later one served from the cache
\* answered with the same body of non-empty samples
C13_Witness ==
    \E s, t \in Scrapes :
        /\ Scraped(s) /\ res[s] = "filled"
        /\ Scraped(t) /\ res[t] = "hit"
        /\ resp[s] = resp[t]
        /\ Rendered(t) # EmptyFamily
        /\ requests = 1

\* the tasks with an upstream request in flight
Filling == {s \in Scrapes : pc[s] = "filling"}

\* the cache entry as the state machine Absent, Filling, Valid, Expired
CacheState ==
    IF Filling # {} THEN "Filling"
    ELSE IF cache = None THEN "Absent"
    ELSE IF now - cache[1].at < time THEN "Valid"
    ELSE "Expired"

\* C14 (as claimed): when the scrapes that run hold the same aggregate, the
\* journeys samples in the body of every one of them are that aggregate:
\* no body shows an empty or partly rewritten family.
C14_ConcurrentBodiesAgree ==
    (\A s, t \in Scrapes : (Fetched(s) /\ Fetched(t)) => data[s] = data[t]) =>
        \A s \in Scrapes : Scraped(s) => SamplesOf(Rendered(s)) = PairsOf(data[s])

\* C15 (as claimed): once every scrape has completed, the journeys family is
\* exactly the aggregate one of them applied (the one whose apply came
\* last), never a mixture of the samples of two aggregates.
C15_LastApplyWins ==
    ((\A s \in Scrapes : pc[s] \in {"idle", "done", "cancelled"})
        /\ (\E s \in Scrapes : Scraped(s))) =>
        \E s \in Scrapes : Scraped(s) /\ SamplesOf(checkins) = PairsOf(data[s])

\* C16: at most one scrape has an upstream request in flight, and it holds
\* the cache mutex from its lookup until its result is stored or discarded;
\* the cache entry only moves Absent -> Filling -> Valid -> Expired ->
\* Filling, or from Filling back to Absent/Expired when the fill fails or is
\* abandoned.
C16_SingleFlightStateMachine ==
    /\ [](/\ Cardinality(Filling) <= 1
          /\ \A s \in Scrapes : pc[s] = "filling" => holder = s
          /\ holder # 0 => pc[holder] = "filling")
    /\ [][/\ CacheState' # CacheState =>
                <<CacheState, CacheState'>> \in
                    {<<"Absent", "Filling">>, <<"Filling", "Valid">>,
                     <<"Valid", "Expired">>, <<"Expired", "Filling">>,
                     <<"Filling", "Absent">>, <<"Filling", "Expired">>}
          /\ (CacheState = "Filling" /\ CacheState' \in {"Absent", "Expired"}) =>
                \E s \in Filling : res'[s] = "err" \/ pc'[s] = "cancelled"
          /\ (CacheState = "Filling" /\ CacheState' = "Valid") =>
                \E s \in Filling : res'[s] = "filled"]_vars

\* C16 witness: the entry went Absent -> Filling -> Valid -> Expired and is
\* being refilled by the lock holder, the expired value already removed
C16_Witness ==
    \E s \in Scrapes :
        /\ CacheState = "Filling" /\ Filling = {s} /\ holder = s
        /\ lastOk # None /\ now - lastOk[1].at >= time
        /\ cache = None

\* C18: a scrape dropped while suspended in the upstream request releases
\* the cache mutex and leaves the cache, the counter and the journeys
\* family as they were; the entry is still absent, so the next scrape to
\* look the key up is granted the mutex and makes its own upstream request.
C18_CancelledFillIsClean ==
    /\ []((lastFill = "dropped" /\ Filling = {}) =>
            (holder = 0 /\ CacheGet(cache, now) = None))
    /\ [][\A s \in Scrapes :
            /\ (pc[s] = "filling" /\ pc'[s] = "cancelled") =>
                  /\ holder' = 0
                  /\ cache' = cache /\ lastOk' = lastOk
                  /\ checkins' = checkins /\ requests' = requests
                  /\ resp' = resp
            /\ (LooksUp(s) /\ lastFill = "dropped") => pc'[s] = "filling"]_vars

\* C18 witness: one scrape was dropped in its upstream request and the other
\* now holds the mutex with its own request in flight
C18_Witness ==
    \E s, t \in Scrapes :
        /\ pc[s] = "cancelled" /\ res[s] = "none" /\ lastFill = "dropped"
        /\ pc[t] = "filling" /\ holder = t

\* the steps task s takes on its own once the runtime polls it: taking the
\* free mutex, record_metrics, gather and encode
OwnStep(s) ==
    Acquire(s) \/ Reset(s) \/ GetMetricWith(s) \/ SetGauge(s) \/ Render(s)

\* the snapshots of the liveness specifications: no status, one status
LiveFeed == {<<>>, <<StatusA>>}

\* the upstream answers the request of task s, one way or the other
UpstreamReturns(s) ==
    UpstreamErr(s) \/ \E snapshot \in LiveFeed : UpstreamOk(s, snapshot)

\* concurrent scrapes, as Next, over LiveFeed
NextLive ==
    \/ Tick
    \/ \E s \in Scrapes : Request(s)
    \/ \E s \in Scrapes : Acquire(s)
    \/ \E s \in Scrapes : \E snapshot \in LiveFeed : UpstreamOk(s, snapshot)
    \/ \E s \in Scrapes : UpstreamErr(s)
    \/ \E s \in Scrapes : Reset(s)
    \/ \E s \in Scrapes : GetMetricWith(s)
    \/ \E s \in Scrapes : SetGauge(s)
    \/ \E s \in Scrapes : Render(s)
    \/ \E s \in Scrapes : Cancel(s)

\* the tokio runtime polls every ready task; create_default_client sets no
\* timeout, so nothing bounds the time a request stays in flight
SpecNoTimeout ==
    Init /\ [][NextLive]_vars /\ \A s \in Scrapes : WF_vars(OwnStep(s))

\* the same, with an upstream that answers every request
SpecFair ==
    /\ Init /\ [][NextLive]_vars
    /\ \A s \in Scrapes : (WF_vars(OwnStep(s)) /\ WF_vars(UpstreamReturns(s)))

\* task s has answered its scrape
Responded(s) == resp[s] # None

\* C17 (as claimed): every scrape that is waiting for the mutex or for the
\* upstream eventually returns a response (or is dropped by its scraper),
\* whether or not the upstream ever answers.
C17_StuckUpstreamReturns ==
    \A s \in Scrapes :
        (pc[s] \in {"wait", "filling"}) ~> (Responded(s) \/ pc[s] = "cancelled")

\* C19: with an upstream that answers every request and a fair runtime,
\* every scrape that asked for the mutex ends with a response unless its
\* scraper dropped it, however many fills fail ahead of it.
C19_EveryScrapeReturns ==
    /\ [](\A s \in Scrapes : pc[s] = "done" <=> Responded(s))
    /\ \A s \in Scrapes : (pc[s] = "wait") ~> (pc[s] \in {"done", "cancelled"})

\* C19 witness: a scrape waited while the fill ahead of it failed, then made
\* its own request, which failed too, and answered
C19_Witness ==
    \E s, t \in Scrapes :
        /\ s # t /\ res[s] = "err" /\ Responded(s)
        /\ sawFail[t] /\ res[t] = "err" /\ Responded(t) /\ pc[t] = "done"

====
